---- MODULE Spec2Model ----
(***************************************************************************)
(* The network layer of "Mario & Luigi LIVE" (src/live-8.9.25.-a.py, and   *)
(* the identical layer of src/1-live.py): PacketType, NetworkManager with  *)
(* its packet codec, its host and client receive loops, and the calls the  *)
(* game engine makes into it: the network part of GameEngine.update with   *)
(* get_messages and GameEngine._handle_network_message.                    *)
(*                                                                         *)
(* Python values are modelled with their run-time type where the code's    *)
(* behaviour depends on it: a PacketType member is [k |-> "enum"], a       *)
(* number read from JSON is [k |-> "int"], a number in a JSON text is      *)
(* [k |-> "jnum"].  A datagram is the JSON text it carries (or garbage), a *)
(* packet is the Python object json.loads makes of it.                     *)
(***************************************************************************)
EXTENDS Integers, Sequences, FiniteSets, TLC

VARIABLES
    is_server,      \* NetworkManager.is_server
    is_client,      \* NetworkManager.is_client
    socket,         \* which socket self.socket is: "none", "bound", "unbound"
    clients,        \* NetworkManager.clients: address -> player id
    players,        \* NetworkManager.players: player id -> snapshot
    message_queue,  \* NetworkManager.message_queue
    server_pc,      \* the host thread: "none", "loop", "exited", "dead"
    client_pc,      \* the client thread: "none", "loop", "exited", "dead"
    inputs,         \* which datagrams the network delivers: "all", "few", "msgs",
                    \* "both", or "wire" (only what was sent)
    sent,           \* what the last step passed to sendto: address -> sequence of datagrams
    last,           \* the last step: operation, its arguments, the exception it ended with
    connected,      \* history: addresses whose CONNECT datagram the host loop has handled
                    \* and whose DISCONNECT datagram it has not handled since
    codec,          \* the codec exercised on its own: input and result
    messages,       \* GameEngine.update: the list get_messages builds, then the tick iterates
    consumer_pc,    \* the game tick: "idle", "get", "test", "handle", "dead"
    pushed,         \* history: every packet put on message_queue, in order
    drained,        \* history: every packet message_queue.get() returned, in order
    wire,           \* datagrams in flight: destination -> sequence of [from, data]
    peer_players    \* NetworkManager.players of a client's manager, in runs in which
                    \* host and client are separate managers

vars == <<is_server, is_client, socket, clients, players, message_queue,
          server_pc, client_pc, inputs, sent, last, connected, codec,
          messages, consumer_pc, pushed, drained, wire, peer_players>>

----------------------------------------------------------------------------
\* Bounds of the model.

NumPeers == 3
MaxCoord == 2
NumTimes == 1
MaxQueue == 2
LongNameLen == 1100
Repeats == 3

\* Program constants.

PACKET_SIZE == 1024
DefaultNameLen == 6
IdLen == 8

\* Peer addresses, and the address a client holds as self.server_addr.
Addrs == 1..NumPeers
HostAddr == NumPeers + 1
Dests == 1..HostAddr
Times == 1..NumTimes

----------------------------------------------------------------------------
\* PacketType and the values a "type" entry can hold.

EnumMember(n) == [k |-> "enum", v |-> n]

CONNECT        == EnumMember(1)
DISCONNECT     == EnumMember(2)
PLAYER_UPDATE  == EnumMember(3)
CHAT_MESSAGE   == EnumMember(4)
BATTLE_REQUEST == EnumMember(5)
BATTLE_ACTION  == EnumMember(6)
WORLD_STATE    == EnumMember(7)
DOWNLOAD_PLAY  == EnumMember(8)
PATCH_SYNC     == EnumMember(9)

PacketType == {EnumMember(n) : n \in 1..9}

\* The tags a datagram can carry: the nine values and one outside them.
WireTags == 1..10

\* Mutant: members compare equal to their values, as those of an IntEnum do.
PyEqByValue(a, b) == a.v = b.v

\* Python's == between a value read from a packet and a PacketType member.
\* Enum defines no __eq__ by value: members are equal to themselves only.
PyEq(a, b) == a = b

----------------------------------------------------------------------------
\* Snapshots: dicts of named fields.  x and y hold numbers; name holds a
\* string, of which the model keeps the length.

NameLens == {DefaultNameLen, LongNameLen}

XYSnapshots == UNION {[D -> 1..MaxCoord] : D \in SUBSET {"x", "y"}}

WithName(s, n) == [f \in DOMAIN s \cup {"name"} |-> IF f = "name" THEN n ELSE s[f]]

Snapshots == XYSnapshots \cup {WithName(s, n) : s \in XYSnapshots, n \in NameLens}

EmptyDict == [f \in {} |-> 0]

\* A snapshot with a 'player_id' entry: an identity, or "None".
WithId(s, id) == [f \in DOMAIN s \cup {"player_id"} |-> IF f = "player_id" THEN id ELSE s[f]]

\* What Character.to_dict returns: every field is present; player_id is the
\* dataclass default None, which nothing ever assigns.
FullSnapshots == {WithId(s, "None") : s \in {t \in Snapshots : DOMAIN t = {"x", "y", "name"}}}

\* dict.update(new): incoming entries overwrite, the others are kept.
DictUpdate(old, new) ==
    [f \in DOMAIN old \cup DOMAIN new |-> IF f \in DOMAIN new THEN new[f] ELSE old[f]]

\* d[key] = value
DictPut(d, key, value) ==
    [f \in DOMAIN d \cup {key} |-> IF f = key THEN value ELSE d[f]]

\* del d[key]
DictDel(d, key) == [f \in DOMAIN d \ {key} |-> d[f]]

\* hashlib.md5(f"{addr}".encode()).hexdigest()[:8]: eight hex digits per
\* address.  The digest is cut to 32 bits, so two addresses can get the same
\* identity: here the last two peer addresses do.
IdNames == <<"id000001", "id000002", "id000003", "id000004", "id000005", "id000006">>

PlayerId(addr) == IdNames[IF addr = NumPeers THEN addr - 1 ELSE addr]

----------------------------------------------------------------------------
\* Lengths of json.dumps output (default separators ", " and ": ").

Digits(n) == IF n < 10 THEN 1 ELSE IF n < 100 THEN 2 ELSE IF n < 1000 THEN 3 ELSE 4

KeyLen(f) == IF f = "name" THEN 4 ELSE IF f = "player_id" THEN 9 ELSE 1

\* "key": value (a string in quotes, null for None)
FieldLen(f, v) ==
    IF f = "name" THEN KeyLen(f) + 4 + (v + 2)
    ELSE IF f = "player_id" THEN KeyLen(f) + 4 + (IF v = "None" THEN 4 ELSE IdLen + 2)
    ELSE KeyLen(f) + 4 + Digits(v)

RECURSIVE SumFieldLen(_, _)
SumFieldLen(s, D) ==
    IF D = {} THEN 0
    ELSE LET f == CHOOSE g \in D : TRUE
         IN FieldLen(f, s[f]) + SumFieldLen(s, D \ {f})

Separators(n) == IF n = 0 THEN 0 ELSE 2 * (n - 1)

SnapshotLen(s) == 2 + SumFieldLen(s, DOMAIN s) + Separators(Cardinality(DOMAIN s))

RECURSIVE SumEntryLen(_, _)
SumEntryLen(reg, D) ==
    IF D = {} THEN 0
    ELSE LET i == CHOOSE j \in D : TRUE
         IN (IdLen + 4 + SnapshotLen(reg[i])) + SumEntryLen(reg, D \ {i})

RegistryLen(reg) == 2 + SumEntryLen(reg, DOMAIN reg) + Separators(Cardinality(DOMAIN reg))

IsSnapshot(d) == DOMAIN d \subseteq {"x", "y", "name", "player_id"}

DataLen(d) == IF IsSnapshot(d) THEN SnapshotLen(d) ELSE RegistryLen(d)

\* {"type": T, "timestamp": t.0, "data": D}
EnvelopeLen(tag, ts, d) == 35 + Digits(tag) + (Digits(ts) + 2) + DataLen(d)

----------------------------------------------------------------------------
\* Datagrams (bytes) and packets (Python objects).

NoTag == [k |-> "none", v |-> 0]

\* Bytes that are not UTF-8 or not a JSON text (truncated texts included).
Garbage == [form |-> "garbage", hasType |-> FALSE, type |-> NoTag,
            ts |-> 0, hasData |-> FALSE, data |-> EmptyDict]

\* A JSON text that is not an object: 5, null, [1, 2].
Scalar == [form |-> "scalar", hasType |-> FALSE, type |-> NoTag,
           ts |-> 0, hasData |-> FALSE, data |-> EmptyDict]

\* A JSON object, with or without its "type" and "data" entries.
JsonObject(hasType, tag, ts, hasData, d) ==
    [form |-> "object", hasType |-> hasType,
     type |-> IF hasType THEN [k |-> "jnum", v |-> tag] ELSE NoTag,
     ts |-> ts, hasData |-> hasData, data |-> IF hasData THEN d ELSE EmptyDict]

Envelope(tag, ts, d) == JsonObject(TRUE, tag, ts, TRUE, d)

NoTypeObject == JsonObject(FALSE, 0, 1, TRUE, EmptyDict)

\* What recvfrom(PACKET_SIZE) can return: at most PACKET_SIZE bytes of a
\* datagram; a longer one arrives cut, which is no JSON text (Garbage).
\* CONNECT and PLAYER_UPDATE come with every snapshot and without a "data"
\* entry, the other tags with an empty payload.
Datagrams ==
    {Garbage, Scalar, NoTypeObject}
    \cup {Envelope(tag, 1, d) : tag \in {CONNECT.v, PLAYER_UPDATE.v}, d \in XYSnapshots}
    \cup {JsonObject(TRUE, tag, 1, FALSE, EmptyDict) : tag \in {CONNECT.v, PLAYER_UPDATE.v}}
    \cup {Envelope(tag, 1, EmptyDict) : tag \in WireTags}

\* A small delivery set for runs in which received packets pile up in the
\* queue: one datagram for each way an iteration can end.
FewDatagrams ==
    {Garbage, Scalar, NoTypeObject,
     Envelope(PLAYER_UPDATE.v, 1, EmptyDict), Envelope(10, 1, EmptyDict)}

\* Two of the peers: client A sends, client B receives and runs the game tick.
ClientA == CHOOSE a \in Addrs : \A b \in Addrs : a <= b
ClientB == ClientA + 1

\* The identity the host derives for the manager whose tick is modelled.
LocalId == PlayerId(ClientB)

SomeXY == [f \in {"x", "y"} |-> MaxCoord]

\* A registry as a WORLD_STATE payload carries it: entries for A and B.
SomeWorld == [i \in {PlayerId(ClientA), PlayerId(ClientB)} |-> SomeXY]

\* What a host that relays sends to a client: the registry, and updates that
\* name an identity; besides them bytes that are no envelope.
ClientDatagrams ==
    {Garbage, Scalar, Envelope(WORLD_STATE.v, 1, SomeWorld)}
    \cup {Envelope(PLAYER_UPDATE.v, 1, WithId(SomeXY, PlayerId(a))) : a \in {ClientA, ClientB}}

\* For a manager that is host and client at once: a registry and an update
\* naming an identity, which either of its sockets may receive.
BothDatagrams ==
    {Envelope(WORLD_STATE.v, 1, SomeWorld),
     Envelope(PLAYER_UPDATE.v, 1, WithId(SomeXY, PlayerId(ClientA)))}

\* The datagrams the network delivers in this run.
Deliverable ==
    IF inputs = "all" THEN Datagrams
    ELSE IF inputs = "msgs" THEN ClientDatagrams
    ELSE IF inputs = "both" THEN BothDatagrams
    ELSE FewDatagrams

\* What recvfrom on the socket of address dest can return next: any
\* deliverable datagram from any of the senders, or, when the network carries
\* only what was sent, the oldest datagram in flight to dest.
Arrivals(dest, senders) ==
    IF inputs = "wire"
    THEN IF wire[dest] = <<>> THEN {} ELSE {Head(wire[dest])}
    ELSE {[from |-> a, data |-> d] : a \in senders, d \in Deliverable}

\* The network after recvfrom at dest returned.
Received(w, dest) == IF inputs = "wire" THEN [w EXCEPT ![dest] = Tail(@)] ELSE w

\* The network after the datagrams s (address -> sequence) were passed to
\* sendto on the socket of address from.
Transmit(w, s, from) ==
    IF inputs = "wire"
    THEN [a \in DOMAIN w |->
             w[a] \o [i \in 1..Len(s[a]) |-> [from |-> from, data |-> s[a][i]]]]
    ELSE w

NoPacket == [form |-> "none", hasType |-> FALSE, type |-> NoTag,
             ts |-> 0, hasData |-> FALSE, data |-> EmptyDict]

\* json.loads of a JSON text: objects become dicts, numbers become ints.
FromJson(text) ==
    [form |-> IF text.form = "object" THEN "dict" ELSE "nondict",
     hasType |-> text.hasType,
     type |-> IF text.hasType THEN [k |-> "int", v |-> text.type.v] ELSE NoTag,
     ts |-> text.ts, hasData |-> text.hasData, data |-> text.data]

\* NetworkManager._parse_packet: json.loads(data.decode()).
\* UnicodeDecodeError and JSONDecodeError are both ValueErrors.
_parse_packet(data) ==
    IF data.form = "garbage"
    THEN [exc |-> "ValueError", packet |-> NoPacket]
    ELSE [exc |-> "none", packet |-> FromJson(data)]

\* Mutant: the member is written as its value, as an IntEnum would be.
TypeToJsonByValue(t) ==
    IF t.k \in {"int", "enum"} THEN [exc |-> "none", json |-> [k |-> "jnum", v |-> t.v]]
    ELSE [exc |-> "TypeError", json |-> NoTag]

\* json.dumps of the value under 'type': an int is written as a number, any
\* other object goes to JSONEncoder.default, which raises TypeError.
TypeToJson(t) ==
    IF t.k = "int" THEN [exc |-> "none", json |-> [k |-> "jnum", v |-> t.v]]
    ELSE [exc |-> "TypeError", json |-> NoTag]

\* NetworkManager._create_packet: json.dumps({'type', 'timestamp', 'data'}).encode().
\* There is no check of the length against PACKET_SIZE.
_create_packet(packet_type, now, data) ==
    LET t == TypeToJson(packet_type)
    IN IF t.exc # "none"
       THEN [exc |-> t.exc, bytes |-> Garbage]
       ELSE [exc |-> "none",
             bytes |-> [form |-> "object", hasType |-> TRUE, type |-> t.json,
                        ts |-> now, hasData |-> TRUE, data |-> data]]

\* Length in bytes of the datagram an envelope serializes to.
SerializedLen(packet_type, now, data) == EnvelopeLen(packet_type.v, now, data)

----------------------------------------------------------------------------
\* One pass of the body of _server_loop's try block on a received datagram.
\* An outcome is the registry and address map it leaves, what it passed to
\* sendto, and the exception it ended with ("none" when it ran to its end).

NoSent == [a \in Dests |-> <<>>]

\* Nothing in flight.
NoWire == [a \in Dests |-> <<>>]

SendTo(s, addr, bytes) == [s EXCEPT ![addr] = Append(@, bytes)]

Outcome(cl, pl, s, exc) == [clients |-> cl, players |-> pl, sent |-> s, exc |-> exc]

\* The CONNECT branch: register, then reply with the registry.
OnConnect(packet, addr, now, cl, pl) ==
    LET player_id == PlayerId(addr)
        cl1 == DictPut(cl, addr, player_id)
    IN IF ~packet.hasData
       THEN Outcome(cl1, pl, NoSent, "KeyError")
       ELSE LET pl1 == DictPut(pl, player_id, packet.data)
                world_packet == _create_packet(WORLD_STATE, now, pl1)
            IN IF world_packet.exc # "none"
               THEN Outcome(cl1, pl1, NoSent, world_packet.exc)
               ELSE Outcome(cl1, pl1, SendTo(NoSent, addr, world_packet.bytes), "none")

\* The fan-out: the received bytes to every registered address but the sender's.
Broadcast(data, addr, cl) ==
    [a \in Dests |-> IF a \in DOMAIN cl /\ a # addr THEN <<data>> ELSE <<>>]

\* The ways the for loop over self.clients can end: every sendto returns, or
\* one raises OSError, after which the loop is left and the peers not yet
\* served get nothing.  The loop goes in the order of registration, which the
\* address map of the model does not keep: any peers may have been served.
FanOuts(data, addr, cl) ==
    LET others == DOMAIN cl \ {addr}
    IN {[sent |-> Broadcast(data, addr, cl), exc |-> "none"]}
       \cup {[sent |-> [a \in Dests |-> IF a \in S THEN <<data>> ELSE <<>>],
              exc |-> "OSError"] : S \in (SUBSET others) \ {others}}

\* The PLAYER_UPDATE branch: merge into the sender's snapshot, then fan out.
OnPlayerUpdate(packet, data, addr, cl, pl) ==
    IF addr \notin DOMAIN cl
    THEN {Outcome(cl, pl, NoSent, "none")}
    ELSE LET player_id == cl[addr]
         IN IF player_id \notin DOMAIN pl \/ ~packet.hasData
            THEN {Outcome(cl, pl, NoSent, "KeyError")}
            ELSE {Outcome(cl, DictPut(pl, player_id, DictUpdate(pl[player_id], packet.data)),
                          out.sent, out.exc) : out \in FanOuts(data, addr, cl)}

\* The DISCONNECT branch: forget the sender.
OnDisconnect(addr, cl, pl) ==
    IF addr \notin DOMAIN cl
    THEN Outcome(cl, pl, NoSent, "none")
    ELSE LET player_id == cl[addr]
             cl1 == DictDel(cl, addr)
         IN IF player_id \notin DOMAIN pl
            THEN Outcome(cl1, pl, NoSent, "KeyError")
            ELSE Outcome(cl1, DictDel(pl, player_id), NoSent, "none")

\* Mutant: the tag is compared by value and the identity is the sender's rank
\* of arrival, not a function of its address.
DispatchByArrival(packet, data, addr, cl, pl) ==
    IF packet.type.v = CONNECT.v
    THEN LET player_id == IdNames[Cardinality(DOMAIN cl) + 1]
         IN {Outcome(DictPut(cl, addr, player_id), DictPut(pl, player_id, packet.data),
                     NoSent, "none")}
    ELSE {Outcome(cl, pl, NoSent, "none")}

\* Mutant: the tag is compared by value, CONNECT registers the sender, and a
\* PLAYER_UPDATE is forwarded re-encoded with the sender's identity added.
DispatchReencoding(packet, data, addr, cl, pl) ==
    IF packet.type.v = CONNECT.v
    THEN {Outcome(DictPut(cl, addr, PlayerId(addr)),
                  DictPut(pl, PlayerId(addr), packet.data), NoSent, "none")}
    ELSE IF packet.type.v = PLAYER_UPDATE.v /\ addr \in DOMAIN cl
    THEN {Outcome(cl, pl,
                  Broadcast([data EXCEPT !.data = WithId(@, PlayerId(addr))], addr, cl),
                  "none")}
    ELSE {Outcome(cl, pl, NoSent, "none")}

\* Mutant: a final else that raises on an unhandled type.
DispatchElseRaise(packet, data, addr, cl, pl) ==
    IF PyEq(packet.type, CONNECT)
    THEN {OnConnect(packet, addr, now, cl, pl) : now \in Times}
    ELSE IF PyEq(packet.type, PLAYER_UPDATE) THEN OnPlayerUpdate(packet, data, addr, cl, pl)
    ELSE IF PyEq(packet.type, DISCONNECT) THEN {OnDisconnect(addr, cl, pl)}
    ELSE {Outcome(cl, pl, NoSent, "ValueError")}

\* The if/elif chain on packet['type']: the outcomes it can have.  Only the
\* CONNECT branch reads the clock (in _create_packet), one outcome per reading.
Dispatch(packet, data, addr, cl, pl) ==
    IF PyEq(packet.type, CONNECT)
    THEN {OnConnect(packet, addr, now, cl, pl) : now \in Times}
    ELSE IF PyEq(packet.type, PLAYER_UPDATE) THEN OnPlayerUpdate(packet, data, addr, cl, pl)
    ELSE IF PyEq(packet.type, DISCONNECT) THEN {OnDisconnect(addr, cl, pl)}
    ELSE {Outcome(cl, pl, NoSent, "none")}

\* Mutant: the registration is dedented out of the CONNECT branch, so every
\* packet with a type registers its sender before the chain runs.
ServerBodyHoisted(data, addr, cl, pl) ==
    LET parsed == _parse_packet(data)
        packet == parsed.packet
        cl1 == DictPut(cl, addr, PlayerId(addr))
        pl1 == DictPut(pl, PlayerId(addr), packet.data)
    IN IF parsed.exc # "none" THEN {Outcome(cl, pl, NoSent, parsed.exc)}
       ELSE IF packet.form # "dict" THEN {Outcome(cl, pl, NoSent, "TypeError")}
       ELSE IF ~packet.hasType THEN {Outcome(cl, pl, NoSent, "KeyError")}
       ELSE IF ~packet.hasData THEN {Outcome(cl1, pl, NoSent, "KeyError")}
       ELSE Dispatch(packet, data, addr, cl1, pl1)

\* packet = self._parse_packet(data), then packet['type'], then the chain:
\* the outcomes one pass of the try body can have.
ServerBody(data, addr, cl, pl) ==
    LET parsed == _parse_packet(data)
        packet == parsed.packet
    IN IF parsed.exc # "none" THEN {Outcome(cl, pl, NoSent, parsed.exc)}
       ELSE IF packet.form # "dict" THEN {Outcome(cl, pl, NoSent, "TypeError")}
       ELSE IF ~packet.hasType THEN {Outcome(cl, pl, NoSent, "KeyError")}
       ELSE Dispatch(packet, data, addr, cl, pl)

\* Mutant: only the timeout is caught.
CaughtTimeoutOnly(exc) == exc \in {"none", "timeout"}

\* except socket.timeout: continue / except Exception: print.  Every exception
\* the body can end with is an Exception, so the loop goes on.
Caught(exc) ==
    exc \in {"none", "timeout", "OSError", "ValueError", "TypeError", "KeyError"}

LoopAfter(exc) == IF Caught(exc) THEN "loop" ELSE "dead"

----------------------------------------------------------------------------
\* message_queue, a queue.Queue: put appends, get removes and returns the
\* oldest item (and waits while there is none), empty tests for no item.

queue_put(q, item) == Append(q, item)

\* Mutant: a LifoQueue, whose get returns the newest item.
queue_get_newest(q) == [item |-> q[Len(q)], rest |-> SubSeq(q, 1, Len(q) - 1)]

queue_get(q) == [item |-> Head(q), rest |-> Tail(q)]

\* Mutant: the loop of get_messages does not test the queue (while True).
queue_empty_never(q) == FALSE

queue_empty(q) == q = <<>>

----------------------------------------------------------------------------
\* GameEngine._handle_network_message on the registry pl of the engine's
\* manager: the registry it leaves and the exception it ends with.

Handled(pl, exc) == [players |-> pl, exc |-> exc]

\* The WORLD_STATE branch: a new identity gets the payload's snapshot, a known
\* one is updated with it.
WorldMerge(pl, data) ==
    [i \in DOMAIN pl \cup DOMAIN data |->
        IF i \notin DOMAIN data THEN pl[i]
        ELSE IF i \in DOMAIN pl THEN DictUpdate(pl[i], data[i])
        ELSE data[i]]

\* player_data.get('player_id')
GetPlayerId(player_data) ==
    IF "player_id" \in DOMAIN player_data THEN player_data["player_id"] ELSE "None"

_handle_network_message(msg, pl) ==
    IF msg.form # "dict" THEN Handled(pl, "TypeError")
    ELSE IF ~msg.hasType THEN Handled(pl, "KeyError")
    ELSE IF PyEq(msg.type, WORLD_STATE)
    THEN IF ~msg.hasData THEN Handled(pl, "KeyError")
         ELSE Handled(WorldMerge(pl, msg.data), "none")
    ELSE IF PyEq(msg.type, PLAYER_UPDATE)
    THEN IF ~msg.hasData THEN Handled(pl, "KeyError")
         ELSE LET player_data == msg.data
                  player_id == GetPlayerId(player_data)
              IN IF player_id # "None"
                 THEN Handled(DictPut(pl, player_id, player_data), "none")
                 ELSE Handled(pl, "none")
    ELSE Handled(pl, "none")

----------------------------------------------------------------------------
\* The record of the last step.

\* op: the operation; addr, data: the datagram a loop received and its sender;
\* payload, now, tried: the envelope a call made a packet of, if it did;
\* exc: the exception the step ended with; was: whether addr was connected
\* before the step; cl0, pl0: the address map and registry before the step.
\* pc0: the host thread before the step; rep: how many times in a row the
\* host loop has now handled this datagram from this sender (up to Repeats).
Step(op, addr, data, payload, now, tried, exc, was) ==
    [op |-> op, addr |-> addr, data |-> data, payload |-> payload, now |-> now,
     tried |-> tried, exc |-> exc, was |-> was, cl0 |-> clients, pl0 |-> players,
     pc0 |-> server_pc,
     rep |-> IF op = "server_recv" /\ data # NoPacket /\ last.op = "server_recv"
                /\ last.addr = addr /\ last.data = data /\ last.rep < Repeats
             THEN last.rep + 1
             ELSE IF op = "server_recv" /\ data # NoPacket /\ last.op = "server_recv"
                     /\ last.addr = addr /\ last.data = data
             THEN Repeats
             ELSE 1]

NoStep ==
    [op |-> "init", addr |-> 0, data |-> NoPacket, payload |-> EmptyDict, now |-> 0,
     tried |-> FALSE, exc |-> "none", was |-> FALSE, cl0 |-> EmptyDict, pl0 |-> EmptyDict,
     pc0 |-> "none", rep |-> 1]

NoCodec == [op |-> "idle", type |-> NoTag, now |-> 0, payload |-> EmptyDict,
            bytes |-> NoPacket, exc |-> "none", out |-> NoPacket, packet |-> NoPacket]

\* The datagram is a well-formed envelope carrying the tag of the given member.
WireIs(data, member) ==
    /\ data.form = "object"
    /\ data.hasType
    /\ data.hasData
    /\ data.type.v = member.v

----------------------------------------------------------------------------
\* The state after NetworkManager.__init__.

Init ==
    /\ is_server = FALSE
    /\ is_client = FALSE
    /\ socket = "none"
    /\ clients = EmptyDict
    /\ players = EmptyDict
    /\ message_queue = <<>>
    /\ server_pc = "none"
    /\ client_pc = "none"
    /\ inputs = "all"
    /\ sent = NoSent
    /\ last = NoStep
    /\ connected = {}
    /\ codec = NoCodec
    /\ messages = <<>>
    /\ consumer_pc = "idle"
    /\ pushed = <<>>
    /\ drained = <<>>
    /\ wire = NoWire
    /\ peer_players = EmptyDict

\* Mutant: the thread is started before the socket is bound.
start_server_ThreadFirst ==
    \E bind_ok \in BOOLEAN :
        /\ is_server' = TRUE
        /\ socket' = IF bind_ok THEN "bound" ELSE "unbound"
        /\ server_pc' = "loop"
        /\ sent' = NoSent
        /\ last' = Step("start_server", 0, NoPacket, EmptyDict, 0, FALSE,
                        IF bind_ok THEN "none" ELSE "OSError", FALSE)
        /\ UNCHANGED <<is_client, clients, players, message_queue, client_pc,
                       inputs, connected, codec>>
        /\ UNCHANGED <<messages, consumer_pc, pushed, drained, wire, peer_players>>

\* NetworkManager.start_server.  The flag is set and the socket replaced before
\* bind; a bind failure is raised to the caller and no thread is started.
\* While a host thread runs, bind finds the port in use as long as the
\* replaced socket is still held by the thread's recvfrom; if the thread is
\* between two calls the old socket is released and bind succeeds, and a
\* second thread runs the same loop.
start_server ==
    \E bind_ok \in BOOLEAN :
        /\ is_server' = TRUE
        /\ socket' = IF bind_ok THEN "bound" ELSE "unbound"
        /\ server_pc' = IF bind_ok THEN "loop" ELSE server_pc
        /\ sent' = NoSent
        /\ last' = Step("start_server", 0, NoPacket, EmptyDict, 0, FALSE,
                        IF bind_ok THEN "none" ELSE "OSError", FALSE)
        /\ UNCHANGED <<is_client, clients, players, message_queue, client_pc,
                       inputs, connected, codec>>
        /\ UNCHANGED <<messages, consumer_pc, pushed, drained, wire, peer_players>>

\* NetworkManager.connect_client.  The flag is set and the socket replaced
\* before the CONNECT packet is made; if making or sending it raises, the
\* client thread is not started.
connect_client ==
    \E now \in Times :
        LET packet == _create_packet(CONNECT, now, WithName(EmptyDict, DefaultNameLen))
        IN /\ is_client' = TRUE
           /\ socket' = "unbound"
           /\ sent' = IF packet.exc = "none" THEN SendTo(NoSent, HostAddr, packet.bytes)
                      ELSE NoSent
           /\ client_pc' = IF packet.exc = "none" /\ client_pc = "none" THEN "loop"
                           ELSE client_pc
           /\ last' = Step("connect_client", 0, NoPacket,
                           WithName(EmptyDict, DefaultNameLen), now, TRUE, packet.exc, FALSE)
           /\ wire' = Transmit(wire, sent', ClientA)
           /\ UNCHANGED <<is_server, clients, players, message_queue, server_pc,
                          inputs, connected, codec>>
           /\ UNCHANGED <<messages, consumer_pc, pushed, drained, peer_players>>

\* What socket.sendto can end with, given what making the packet ended with:
\* it is reached only with a packet, and then it sends or raises OSError.
SendOutcomes(exc) == IF exc = "none" THEN {"none", "OSError"} ELSE {exc}

\* NetworkManager.send_player_update, as GameEngine._update_overworld calls it
\* with self.player.to_dict() on the manager of client A.  Nothing in it or in
\* its caller catches an exception.
send_player_update ==
    \E player_data \in FullSnapshots, now \in Times :
        LET packet == _create_packet(PLAYER_UPDATE, now, player_data)
        IN \E exc \in (IF is_client THEN SendOutcomes(packet.exc) ELSE {"none"}) :
              /\ inputs = "wire" => Len(wire[HostAddr]) < MaxQueue
              /\ sent' = IF is_client /\ exc = "none"
                         THEN SendTo(NoSent, HostAddr, packet.bytes)
                         ELSE NoSent
              /\ wire' = Transmit(wire, sent', ClientA)
              /\ last' = Step("send_player_update", 0, NoPacket, player_data, now,
                              is_client, exc, FALSE)
              /\ UNCHANGED <<is_server, is_client, socket, clients, players, message_queue,
                             server_pc, client_pc, inputs, connected, codec>>
              /\ UNCHANGED <<messages, consumer_pc, pushed, drained, peer_players>>

\* What self.socket.recvfrom can end with: a datagram from a peer or a timeout
\* on the bound socket, or an OSError.  An unbound socket receives nothing.
RecvOutcomes == {"data", "timeout", "OSError"}

\* One iteration of _server_loop: the while test, recvfrom, the body, the
\* except clauses.
_server_loop ==
    /\ server_pc = "loop"
    /\ \/ /\ ~is_server
          /\ server_pc' = "exited"
          /\ sent' = NoSent
          /\ last' = Step("server_exit", 0, NoPacket, EmptyDict, 0, FALSE, "none", FALSE)
          /\ UNCHANGED <<clients, players, connected, wire>>
       \/ /\ is_server
          /\ \E r \in RecvOutcomes \ {"data"} :
                /\ r = "timeout" => socket = "bound"
                /\ server_pc' = LoopAfter(r)
                /\ sent' = NoSent
                /\ last' = Step("server_recv", 0, NoPacket, EmptyDict, 0, FALSE, r, FALSE)
                /\ UNCHANGED <<clients, players, connected, wire>>
       \/ /\ is_server
          /\ socket = "bound"
          /\ \E m \in Arrivals(HostAddr, Addrs) :
             \E out \in ServerBody(m.data, m.from, clients, players) :
                   /\ clients' = out.clients
                   /\ players' = out.players
                   /\ sent' = out.sent
                   /\ wire' = Transmit(Received(wire, HostAddr), out.sent, HostAddr)
                   /\ server_pc' = LoopAfter(out.exc)
                   /\ last' = Step("server_recv", m.from, m.data, EmptyDict, 0, FALSE,
                                   out.exc, m.from \in connected)
                   /\ connected' = IF WireIs(m.data, CONNECT) THEN connected \cup {m.from}
                                   ELSE IF WireIs(m.data, DISCONNECT)
                                   THEN connected \ {m.from}
                                   ELSE connected
    /\ UNCHANGED <<is_server, is_client, socket, message_queue, client_pc, inputs, codec>>
    /\ UNCHANGED <<messages, consumer_pc, pushed, drained, peer_players>>

\* Mutant: the client thread applies the payload of what it decoded to the
\* registry itself, besides enqueueing it.
_client_loop_Inline ==
    /\ client_pc = "loop"
    /\ \/ /\ ~is_client
          /\ client_pc' = "exited"
          /\ last' = Step("client_exit", 0, NoPacket, EmptyDict, 0, FALSE, "none", FALSE)
          /\ UNCHANGED <<message_queue, pushed, wire, players>>
       \/ /\ is_client
          /\ \E r \in RecvOutcomes \ {"data"} :
                /\ client_pc' = LoopAfter(r)
                /\ last' = Step("client_recv", 0, NoPacket, EmptyDict, 0, FALSE, r, FALSE)
                /\ UNCHANGED <<message_queue, pushed, wire, players>>
       \/ /\ is_client
          /\ Len(pushed) < MaxQueue
          /\ \E m \in Arrivals(ClientB, {HostAddr}) :
                LET parsed == _parse_packet(m.data)
                IN /\ message_queue' = IF parsed.exc = "none"
                                       THEN queue_put(message_queue, parsed.packet)
                                       ELSE message_queue
                   /\ pushed' = IF parsed.exc = "none"
                                THEN Append(pushed, parsed.packet)
                                ELSE pushed
                   /\ wire' = Received(wire, ClientB)
                   /\ players' = IF parsed.exc = "none" /\ parsed.packet.form = "dict"
                                 THEN DictUpdate(players, parsed.packet.data)
                                 ELSE players
                   /\ client_pc' = LoopAfter(parsed.exc)
                   /\ last' = Step("client_recv", 0, m.data, EmptyDict, 0, FALSE,
                                   parsed.exc, FALSE)
    /\ sent' = NoSent
    /\ UNCHANGED <<is_server, is_client, socket, clients, server_pc,
                   inputs, connected, codec>>
    /\ UNCHANGED <<messages, consumer_pc, drained, peer_players>>

\* One iteration of _client_loop: the while test, recvfrom, _parse_packet,
\* message_queue.put, the except clauses.
_client_loop ==
    /\ client_pc = "loop"
    /\ \/ /\ ~is_client
          /\ client_pc' = "exited"
          /\ last' = Step("client_exit", 0, NoPacket, EmptyDict, 0, FALSE, "none", FALSE)
          /\ UNCHANGED <<message_queue, pushed, wire>>
       \/ /\ is_client
          /\ \E r \in RecvOutcomes \ {"data"} :
                /\ client_pc' = LoopAfter(r)
                /\ last' = Step("client_recv", 0, NoPacket, EmptyDict, 0, FALSE, r, FALSE)
                /\ UNCHANGED <<message_queue, pushed, wire>>
       \/ /\ is_client
          /\ Len(pushed) < MaxQueue
          /\ \E m \in Arrivals(ClientB, {HostAddr}) :
                LET parsed == _parse_packet(m.data)
                IN /\ message_queue' = IF parsed.exc = "none"
                                       THEN queue_put(message_queue, parsed.packet)
                                       ELSE message_queue
                   /\ pushed' = IF parsed.exc = "none"
                                THEN Append(pushed, parsed.packet)
                                ELSE pushed
                   /\ wire' = Received(wire, ClientB)
                   /\ client_pc' = LoopAfter(parsed.exc)
                   /\ last' = Step("client_recv", 0, m.data, EmptyDict, 0, FALSE,
                                   parsed.exc, FALSE)
    /\ sent' = NoSent
    /\ UNCHANGED <<is_server, is_client, socket, clients, players, server_pc,
                   inputs, connected, codec>>
    /\ UNCHANGED <<messages, consumer_pc, drained, peer_players>>

\* self.network.players of the manager whose tick is modelled.
Registry == IF inputs = "wire" THEN peer_players ELSE players

\* The network part of GameEngine.update, one queue operation or one handled
\* message per step: get_messages (the empty test, then get and the test
\* again), then _handle_network_message for each message of the list.  An
\* exception is caught nowhere in the tick and ends the game loop.
update ==
    /\ \/ /\ consumer_pc = "idle"
          /\ is_client \/ is_server
          /\ messages' = <<>>
          /\ IF queue_empty(message_queue)
             THEN /\ consumer_pc' = "idle"
                  /\ last' = Step("update_empty", 0, NoPacket, EmptyDict, 0, FALSE,
                                  "none", FALSE)
             ELSE /\ consumer_pc' = "get"
                  /\ UNCHANGED last
          /\ UNCHANGED <<message_queue, drained, players, peer_players>>
       \/ /\ consumer_pc = "get"
          /\ message_queue # <<>>
          /\ LET got == queue_get(message_queue)
             IN /\ messages' = Append(messages, got.item)
                /\ message_queue' = got.rest
                /\ drained' = Append(drained, got.item)
          /\ consumer_pc' = "test"
          /\ UNCHANGED <<last, players, peer_players>>
       \/ /\ consumer_pc = "test"
          /\ consumer_pc' = IF queue_empty(message_queue) THEN "handle" ELSE "get"
          /\ UNCHANGED <<messages, message_queue, drained, last, players, peer_players>>
       \/ /\ consumer_pc = "handle"
          /\ messages # <<>>
          /\ LET msg == Head(messages)
                 r == _handle_network_message(msg, Registry)
             IN /\ IF inputs = "wire"
                   THEN peer_players' = r.players /\ UNCHANGED players
                   ELSE players' = r.players /\ UNCHANGED peer_players
                /\ consumer_pc' = IF r.exc # "none" THEN "dead"
                                  ELSE IF Tail(messages) = <<>> THEN "idle"
                                  ELSE "handle"
                /\ last' = [Step("handle", 0, msg, EmptyDict, 0, FALSE, r.exc, FALSE)
                               EXCEPT !.pl0 = Registry]
          /\ messages' = Tail(messages)
          /\ UNCHANGED <<message_queue, drained>>
    /\ sent' = NoSent
    /\ UNCHANGED <<is_server, is_client, socket, clients, server_pc, client_pc,
                   inputs, connected, codec, pushed, wire>>

Next ==
    \/ start_server
    \/ connect_client
    \/ send_player_update
    \/ _server_loop
    \/ update

Spec == Init /\ [][Next]_vars

----------------------------------------------------------------------------
\* The two receive loops run as thread targets on a constructed manager whose
\* flags and socket are set: connect_client never gets as far as starting
\* _client_loop (its _create_packet raises), so the loop is entered directly.

InitLoops ==
    /\ is_server \in BOOLEAN
    /\ is_client \in BOOLEAN
    /\ socket = "bound"
    /\ clients = EmptyDict
    /\ players = EmptyDict
    /\ message_queue = <<>>
    /\ server_pc = "loop"
    /\ client_pc = "loop"
    /\ inputs = "few"
    /\ sent = NoSent
    /\ last = NoStep
    /\ connected = {}
    /\ codec = NoCodec
    /\ messages = <<>>
    /\ consumer_pc = "idle"
    /\ pushed = <<>>
    /\ drained = <<>>
    /\ wire = NoWire
    /\ peer_players = EmptyDict

NextLoops ==
    \/ _server_loop
    \/ _client_loop

SpecLoops == InitLoops /\ [][NextLoops]_vars

----------------------------------------------------------------------------
\* A client's manager with its receive thread running and the game ticking:
\* what arrives is what a relaying host could send.

InitConsumer ==
    /\ is_server = FALSE
    /\ is_client = TRUE
    /\ socket = "bound"
    /\ clients = EmptyDict
    /\ players = EmptyDict
    /\ message_queue = <<>>
    /\ server_pc = "none"
    /\ client_pc = "loop"
    /\ inputs = "msgs"
    /\ sent = NoSent
    /\ last = NoStep
    /\ connected = {}
    /\ codec = NoCodec
    /\ messages = <<>>
    /\ consumer_pc = "idle"
    /\ pushed = <<>>
    /\ drained = <<>>
    /\ wire = NoWire
    /\ peer_players = EmptyDict

NextConsumer ==
    \/ _client_loop
    \/ update

SpecConsumer == InitConsumer /\ [][NextConsumer]_vars

----------------------------------------------------------------------------
\* The tick on a registry that already has an entry: self.network.players is
\* given the snapshot of client A before the client thread and the tick run.

StoredXY == [f \in {"x", "y"} |-> MaxCoord - 1]

StoredWorld == [i \in {PlayerId(ClientA)} |-> WithName(StoredXY, DefaultNameLen)]

InitHandler ==
    /\ is_server = FALSE
    /\ is_client = TRUE
    /\ socket = "bound"
    /\ clients = EmptyDict
    /\ players = StoredWorld
    /\ message_queue = <<>>
    /\ server_pc = "none"
    /\ client_pc = "loop"
    /\ inputs = "msgs"
    /\ sent = NoSent
    /\ last = NoStep
    /\ connected = {}
    /\ codec = NoCodec
    /\ messages = <<>>
    /\ consumer_pc = "idle"
    /\ pushed = <<>>
    /\ drained = <<>>
    /\ wire = NoWire
    /\ peer_players = EmptyDict

SpecHandler == InitHandler /\ [][NextConsumer]_vars

----------------------------------------------------------------------------
\* One manager that is host and client at once, both receive threads running
\* and the game ticking.

InitBoth ==
    /\ is_server = TRUE
    /\ is_client = TRUE
    /\ socket = "bound"
    /\ clients = EmptyDict
    /\ players = EmptyDict
    /\ message_queue = <<>>
    /\ server_pc = "loop"
    /\ client_pc = "loop"
    /\ inputs = "both"
    /\ sent = NoSent
    /\ last = NoStep
    /\ connected = {}
    /\ codec = NoCodec
    /\ messages = <<>>
    /\ consumer_pc = "idle"
    /\ pushed = <<>>
    /\ drained = <<>>
    /\ wire = NoWire
    /\ peer_players = EmptyDict

NextBoth ==
    \/ send_player_update
    \/ _server_loop
    \/ _client_loop
    \/ update

SpecBoth == InitBoth /\ [][NextBoth]_vars

----------------------------------------------------------------------------
\* Three managers: a host (is_server, clients, players, the host thread),
\* client A (send_player_update) and client B (the client thread, the queue,
\* the tick, peer_players).  The network carries what is passed to sendto and
\* loses nothing; at the start the CONNECT datagrams of two peers are in
\* flight to the host, as a working connect_client would have sent them.

Hello(a) ==
    [from |-> a, data |-> Envelope(CONNECT.v, 1, WithName(EmptyDict, DefaultNameLen))]

InitRelay ==
    /\ is_server = TRUE
    /\ is_client = TRUE
    /\ socket = "bound"
    /\ clients = EmptyDict
    /\ players = EmptyDict
    /\ message_queue = <<>>
    /\ server_pc = "loop"
    /\ client_pc = "loop"
    /\ inputs = "wire"
    /\ sent = NoSent
    /\ last = NoStep
    /\ connected = {}
    /\ codec = NoCodec
    /\ messages = <<>>
    /\ consumer_pc = "idle"
    /\ pushed = <<>>
    /\ drained = <<>>
    /\ wire \in {[NoWire EXCEPT ![HostAddr] = <<Hello(a), Hello(b)>>] :
                    a \in Addrs, b \in Addrs}
    /\ peer_players = EmptyDict

NextRelay ==
    \/ send_player_update
    \/ _server_loop
    \/ _client_loop
    \/ update

SpecRelay == InitRelay /\ [][NextRelay]_vars

----------------------------------------------------------------------------
\* The codec on its own: _create_packet and _parse_packet applied to inputs
\* drawn from the envelopes and the datagrams.

CodecEnvelope(t, now, d) ==
    [op |-> "envelope", type |-> t, now |-> now, payload |-> d,
     bytes |-> NoPacket, exc |-> "none", out |-> NoPacket, packet |-> NoPacket]

CodecBytes(b) ==
    [op |-> "bytes", type |-> NoTag, now |-> 0, payload |-> EmptyDict,
     bytes |-> b, exc |-> "none", out |-> NoPacket, packet |-> NoPacket]

InitCodec ==
    /\ is_server = FALSE
    /\ is_client = FALSE
    /\ socket = "none"
    /\ clients = EmptyDict
    /\ players = EmptyDict
    /\ message_queue = <<>>
    /\ server_pc = "none"
    /\ client_pc = "none"
    /\ inputs = "all"
    /\ sent = NoSent
    /\ last = NoStep
    /\ connected = {}
    /\ codec \in {CodecEnvelope(t, now, d) : t \in PacketType, now \in Times, d \in Snapshots}
                 \cup {CodecBytes(b) : b \in Datagrams}
    /\ messages = <<>>
    /\ consumer_pc = "idle"
    /\ pushed = <<>>
    /\ drained = <<>>
    /\ wire = NoWire
    /\ peer_players = EmptyDict

Program == <<is_server, is_client, socket, clients, players, message_queue,
             server_pc, client_pc, inputs, sent, last, connected,
             messages, consumer_pc, pushed, drained, wire, peer_players>>

\* _create_packet(type, data) at clock reading now.
Encode ==
    /\ codec.op = "envelope"
    /\ LET r == _create_packet(codec.type, codec.now, codec.payload)
       IN codec' = [codec EXCEPT !.op = "encoded", !.exc = r.exc, !.out = r.bytes]
    /\ UNCHANGED Program

\* _parse_packet(bytes).
Decode ==
    /\ codec.op = "bytes"
    /\ LET r == _parse_packet(codec.bytes)
       IN codec' = [codec EXCEPT !.op = "decoded", !.exc = r.exc, !.packet = r.packet]
    /\ UNCHANGED Program

\* _parse_packet(_create_packet(type, data)).
RoundTrip ==
    /\ codec.op = "envelope"
    /\ LET e == _create_packet(codec.type, codec.now, codec.payload)
           r == _parse_packet(e.bytes)
       IN codec' = IF e.exc # "none"
                   THEN [codec EXCEPT !.op = "roundtrip", !.exc = e.exc]
                   ELSE [codec EXCEPT !.op = "roundtrip", !.exc = r.exc,
                                      !.out = e.bytes, !.packet = r.packet]
    /\ UNCHANGED Program

NextCodec ==
    \/ Encode
    \/ Decode
    \/ RoundTrip

SpecCodec == InitCodec /\ [][NextCodec]_vars

----------------------------------------------------------------------------
\* Predicates on the last step.

HandledFrom(step, member) ==
    /\ step.op = "server_recv"
    /\ WireIs(step.data, member)

\* The envelope of the last call that made a packet.
TriedType(step) == IF step.op = "connect_client" THEN CONNECT ELSE PLAYER_UPDATE

Oversized(step) ==
    /\ step.tried
    /\ SerializedLen(TriedType(step), step.now, step.payload) > PACKET_SIZE

\* Bytes that are no valid envelope: no JSON object, no "type" or "data"
\* entry, or a tag outside the nine values.
Malformed(b) ==
    \/ b.form # "object"
    \/ ~b.hasType
    \/ ~b.hasData
    \/ b.type.v \notin {m.v : m \in PacketType}

----------------------------------------------------------------------------
\* C1: when the host has handled a PLAYER_UPDATE datagram from a connected
\* peer A, it has sent exactly one datagram to every other connected peer,
\* none to A and none to any other address.
C1_FanOutToOthers ==
    (HandledFrom(last, PLAYER_UPDATE) /\ last.was) =>
        \A a \in Dests :
            Len(sent[a]) = IF a \in connected \ {last.addr} THEN 1 ELSE 0

\* C2: when the host has handled a PLAYER_UPDATE datagram whose sender had no
\* entry in the address map, the address map and the registry are as they
\* were before and nothing was sent.
C2_UnregisteredUpdateDropped ==
    (HandledFrom(last, PLAYER_UPDATE) /\ last.addr \notin DOMAIN last.cl0) =>
        (clients = last.cl0 /\ players = last.pl0 /\ sent = NoSent)

C2_Witness ==
    /\ HandledFrom(last, PLAYER_UPDATE)
    /\ ~last.was
    /\ last.addr \notin DOMAIN last.cl0
    /\ connected # {}

\* C3: when the host has handled a PLAYER_UPDATE datagram from a connected
\* peer, that peer's stored snapshot holds every field of the update with the
\* incoming value.
C3_MergedIntoSnapshot ==
    (HandledFrom(last, PLAYER_UPDATE) /\ last.was) =>
        /\ PlayerId(last.addr) \in DOMAIN players
        /\ \A f \in DOMAIN last.data.data :
              /\ f \in DOMAIN players[PlayerId(last.addr)]
              /\ players[PlayerId(last.addr)][f] = last.data.data[f]

\* C4: when the host has handled a CONNECT datagram from address X, X is in
\* the address map, its identity is in the registry, and exactly one datagram
\* was sent: a WORLD_STATE envelope to X whose payload is the registry.
C4_ConnectRegistersAndReplies ==
    HandledFrom(last, CONNECT) =>
        /\ last.addr \in DOMAIN clients
        /\ PlayerId(last.addr) \in DOMAIN players
        /\ \A a \in Dests \ {last.addr} : sent[a] = <<>>
        /\ Len(sent[last.addr]) = 1
        /\ sent[last.addr][1].type.v = WORLD_STATE.v
        /\ sent[last.addr][1].data = players

\* C5: when the host has handled a DISCONNECT datagram from a peer P that had
\* connected, P's address is not in the address map, P's identity is not in
\* the registry, and every other peer's entries are as they were before.
C5_DisconnectRemoves ==
    (HandledFrom(last, DISCONNECT) /\ last.was) =>
        /\ last.addr \notin DOMAIN clients
        /\ PlayerId(last.addr) \notin DOMAIN players
        /\ \A a \in DOMAIN last.cl0 \ {last.addr} :
              a \in DOMAIN clients /\ clients[a] = last.cl0[a]
        /\ \A i \in DOMAIN last.pl0 \ {PlayerId(last.addr)} :
              i \in DOMAIN players /\ players[i] = last.pl0[i]

C5_Witness ==
    /\ HandledFrom(last, DISCONNECT)
    /\ last.was
    /\ last.addr \notin connected
    /\ connected # {}

\* C6: when the host has handled a DISCONNECT datagram whose sender had no
\* entry in the address map, nothing was raised, the address map and the
\* registry are as they were before, and the host loop goes on.
C6_AbsentDisconnectNoOp ==
    (HandledFrom(last, DISCONNECT) /\ last.addr \notin DOMAIN last.cl0) =>
        /\ last.exc = "none"
        /\ clients = last.cl0
        /\ players = last.pl0
        /\ server_pc = "loop"

C6_Witness ==
    /\ HandledFrom(last, DISCONNECT)
    /\ ~last.was
    /\ last.addr \notin DOMAIN last.cl0
    /\ last.exc = "none"
    /\ server_pc = "loop"

\* C7: decoding the bytes made by encoding an envelope gives a packet with the
\* envelope's type and payload.
C7_RoundTrip ==
    codec.op = "roundtrip" =>
        /\ codec.exc = "none"
        /\ codec.packet.form = "dict"
        /\ PyEq(codec.packet.type, codec.type)
        /\ codec.packet.data = codec.payload

\* C8: decoding bytes that are no valid envelope (garbage, cut short, no
\* envelope object, or a tag outside the nine values) ends in an error.
C8_MalformedRaises ==
    (codec.op = "decoded" /\ Malformed(codec.bytes)) => codec.exc # "none"

\* C9: a receive loop leaves its loop only when its flag is clear, and then
\* by its while test; whatever one iteration ends with, the thread goes on.
C9_LoopsSurvive ==
    [][/\ (server_pc = "loop" /\ server_pc' # "loop") =>
              (~is_server /\ server_pc' = "exited")
       /\ (client_pc = "loop" /\ client_pc' # "loop") =>
              (~is_client /\ client_pc' = "exited")
       /\ (last'.op \in {"server_recv", "client_recv"} /\ last'.exc # "none") =>
              (server_pc' = server_pc /\ client_pc' = client_pc)]_vars

C9_Witness ==
    /\ last.op = "client_recv"
    /\ last.exc = "ValueError"
    /\ client_pc = "loop"
    /\ server_pc = "loop"
    /\ is_server
    /\ Len(message_queue) > 0

C11_RepeatedUpdateIdempotent ==
    (/\ HandledFrom(last, PLAYER_UPDATE)
     /\ last.was
     /\ last.rep = Repeats
     /\ DOMAIN last.data.data = {"x", "y"}) =>
        /\ PlayerId(last.addr) \in DOMAIN players
        /\ \A f \in {"x", "y"} :
              /\ f \in DOMAIN players[PlayerId(last.addr)]
              /\ players[PlayerId(last.addr)][f] = last.data.data[f]
        /\ DOMAIN players = DOMAIN last.pl0
        /\ DOMAIN clients = DOMAIN last.cl0

IsSuffix(t, q) == Len(t) <= Len(q) /\ SubSeq(q, Len(q) - Len(t) + 1, Len(q)) = t

\* C13: the packets put on the queue are, in order, those get has returned
\* followed by those still queued, and the list of the drain in progress (or
\* what is left of it to handle) is the end of what get has returned.
C13_EachMessageOnceInOrder ==
    /\ pushed = drained \o message_queue
    /\ IsSuffix(messages, drained)

C13_Witness ==
    /\ consumer_pc = "handle"
    /\ Len(messages) > 1
    /\ messages[1] # messages[2]
    /\ pushed = drained

\* C14: get_messages is never at its get with nothing queued, and a call that
\* finds nothing queued has returned the empty list.
C14_GetNeverWaits ==
    /\ consumer_pc = "get" => message_queue # <<>>
    /\ last.op = "update_empty" => (messages = <<>> /\ consumer_pc = "idle")

C14_Witness ==
    /\ consumer_pc = "get"
    /\ drained # <<>>
    /\ message_queue # <<>>
    /\ client_pc = "loop"

\* C15: when the tick has handled a WORLD_STATE message, every identity of its
\* payload is in the registry with the payload's values; when it has handled a
\* PLAYER_UPDATE message whose payload names identity I, the registry's entry
\* for I holds the payload's values and every other entry is as it was.
C15_Reconciled ==
    (last.op = "handle" /\ last.data.form = "dict" /\ last.data.hasType /\ last.data.hasData) =>
        /\ last.data.type.v = WORLD_STATE.v =>
              \A i \in DOMAIN last.data.data :
                 /\ i \in DOMAIN Registry
                 /\ \A f \in DOMAIN last.data.data[i] :
                       /\ f \in DOMAIN Registry[i]
                       /\ Registry[i][f] = last.data.data[i][f]
        /\ (last.data.type.v = PLAYER_UPDATE.v /\ GetPlayerId(last.data.data) # "None") =>
              /\ GetPlayerId(last.data.data) \in DOMAIN Registry
              /\ \A f \in DOMAIN last.data.data :
                    /\ f \in DOMAIN Registry[GetPlayerId(last.data.data)]
                    /\ Registry[GetPlayerId(last.data.data)][f] = last.data.data[f]
              /\ \A j \in (DOMAIN Registry \cup DOMAIN last.pl0) \ {GetPlayerId(last.data.data)} :
                    /\ j \in DOMAIN Registry
                    /\ j \in DOMAIN last.pl0
                    /\ Registry[j] = last.pl0[j]

\* Nothing is in flight, queued, or drained and not yet handled.
Quiescent ==
    /\ \A a \in Dests : wire[a] = <<>>
    /\ message_queue = <<>>
    /\ messages = <<>>
    /\ consumer_pc = "idle"

\* C16: with A and B connected, once A has called send_player_update and
\* nothing is left in flight, queued or to handle, B's registry has an entry
\* under the identity the host derives for A, holding the fields A sent.
C16_RelayReachesPeer ==
    (/\ last.op = "send_player_update"
     /\ last.tried
     /\ {ClientA, ClientB} \subseteq connected
     /\ Quiescent) =>
        /\ PlayerId(ClientA) \in DOMAIN peer_players
        /\ \A f \in {"x", "y", "name"} :
              /\ f \in DOMAIN peer_players[PlayerId(ClientA)]
              /\ peer_players[PlayerId(ClientA)][f] = last.payload[f]

\* C17: when the host loop has exited, the host is deactivated and its socket
\* is closed.
C17_StoppedHostClosesSocket ==
    server_pc = "exited" => (~is_server /\ socket = "closed")

\* C18: when start_server has ended with its socket not bound, it has raised
\* OSError to its caller and the host thread is as it was before the call.
C18_BindFailureSurfaced ==
    (last.op = "start_server" /\ socket = "unbound") =>
        /\ last.exc = "OSError"
        /\ server_pc = last.pc0

C18_Witness ==
    /\ last.op = "start_server"
    /\ socket = "unbound"
    /\ last.exc = "OSError"
    /\ is_server
    /\ server_pc = "none"

\* C19: a send_player_update call raises nothing to its caller, and the host
\* loop goes on after every iteration.
C19_SendFailureDropped ==
    /\ last.op = "send_player_update" => last.exc = "none"
    /\ last.op = "server_recv" => server_pc = "loop"

\* C20: every address in the address map has the identity derived from it, a
\* CONNECT from an address already in the map leaves the entries of the map
\* and of the registry as they were, and the registry has no more entries than
\* the map.
C20_IdentityStable ==
    /\ \A a \in DOMAIN clients : clients[a] = PlayerId(a)
    /\ (HandledFrom(last, CONNECT) /\ last.addr \in DOMAIN last.cl0) =>
          (DOMAIN clients = DOMAIN last.cl0 /\ DOMAIN players = DOMAIN last.pl0)
    /\ Cardinality(DOMAIN players) <= Cardinality(DOMAIN clients)

C20_Witness ==
    /\ HandledFrom(last, CONNECT)
    /\ last.was
    /\ last.rep > 1
    /\ last.addr \in connected

OtherTypes == PacketType \ {CONNECT, PLAYER_UPDATE, DISCONNECT}

\* C22: when the host has handled a well-formed datagram of a type other than
\* CONNECT, PLAYER_UPDATE and DISCONNECT, the address map and the registry are
\* as they were before, nothing was sent, nothing was raised, and the host
\* loop goes on.
C22_UnhandledTypeDropped ==
    (last.op = "server_recv" /\ \E m \in OtherTypes : WireIs(last.data, m)) =>
        /\ clients = last.cl0
        /\ players = last.pl0
        /\ sent = NoSent
        /\ last.exc = "none"
        /\ server_pc = "loop"

C22_Witness ==
    /\ HandledFrom(last, PATCH_SYNC)
    /\ last.was
    /\ last.exc = "none"
    /\ server_pc = "loop"

\* C23: every datagram the host has passed to sendto while handling a
\* PLAYER_UPDATE datagram is the datagram it received.
C23_ForwardedUnchanged ==
    HandledFrom(last, PLAYER_UPDATE) =>
        \A a \in Dests : \A i \in 1..Len(sent[a]) : sent[a][i] = last.data

C23_Witness ==
    /\ HandledFrom(last, PLAYER_UPDATE)
    /\ last.was
    /\ last.exc = "none"
    /\ connected \ {last.addr} # {}

\* C24: when the client loop has run an iteration, the address map and the
\* registry are as they were before and nothing was sent; if it decoded a
\* datagram, the packet made of it is the last one put on the queue.
C24_ClientLoopOnlyEnqueues ==
    last.op \in {"client_recv", "client_exit"} =>
        /\ clients = last.cl0
        /\ players = last.pl0
        /\ peer_players = EmptyDict
        /\ sent = NoSent
        /\ (last.data # NoPacket /\ last.exc = "none") =>
              (pushed # <<>> /\ pushed[Len(pushed)] = FromJson(last.data))

C24_Witness ==
    /\ last.op = "client_recv"
    /\ last.exc = "none"
    /\ WireIs(last.data, WORLD_STATE)
    /\ Len(pushed) > 1
    /\ pushed[Len(pushed)] = FromJson(last.data)

C26_UpdateMergedOverStored ==
    (/\ last.op = "handle"
     /\ last.data.form = "dict"
     /\ last.data.hasType
     /\ last.data.type.v = PLAYER_UPDATE.v
     /\ GetPlayerId(last.data.data) \in DOMAIN last.pl0) =>
        /\ GetPlayerId(last.data.data) \in DOMAIN Registry
        /\ Registry[GetPlayerId(last.data.data)] =
              DictUpdate(last.pl0[GetPlayerId(last.data.data)], last.data.data)

C28_FailedActivationUndone ==
    /\ (last.op = "start_server" /\ last.exc # "none" /\ last.pc0 = "none") =>
          (~is_server /\ server_pc = "none")
    /\ (last.op = "connect_client" /\ last.exc # "none") =>
          (~is_client /\ client_pc = "none")

\* C29: when start_server or connect_client has been called while the host
\* thread was running, no further host thread was started and the socket is
\* still the bound one the thread receives on.
C29_OneLoopSocketKept ==
    (last.op \in {"start_server", "connect_client"} /\ last.pc0 = "loop") =>
        /\ socket = "bound"
        /\ ~(last.op = "start_server" /\ last.exc = "none")

\* C30: when the host has handled a PLAYER_UPDATE datagram from a connected
\* peer, every other connected peer was sent at most one copy, and the peers
\* that were sent none are at most the one whose send failed.
C30_FanOutSurvivesOneFailure ==
    (HandledFrom(last, PLAYER_UPDATE) /\ last.was) =>
        /\ \A a \in connected \ {last.addr} : Len(sent[a]) <= 1
        /\ Cardinality({a \in connected \ {last.addr} : sent[a] = <<>>})
              <= (IF last.exc = "none" THEN 0 ELSE 1)

====
